---- MODULE Spec2Model ----
(***************************************************************************)
(* Model of tenpy/linalg/lanczos.py: gram_schmidt, lanczos and _to_cache.  *)
(*                                                                         *)
(* Numbers are fixed-point reals in tenths (One = 1.0).  Vectors are real  *)
(* tuples of length Dim.  The operator A is a symmetric tridiagonal        *)
(* (Jacobi) matrix and the start vector a multiple of the first unit       *)
(* vector, the vectors of orthogonal_to multiples of unit vectors: on      *)
(* these inputs every norm, inner product and division of the algorithm    *)
(* is exact in the fixed-point arithmetic.  The dense eigensolver          *)
(* np.linalg.eigh is a library primitive: the quantities the code reads    *)
(* from it (v_T[k,0], the lowest-eigenvalue decrease) are inputs of each   *)
(* step, and the Ritz coefficients v_T[j,0] that weight the returned sum   *)
(* are kept symbolic (a term of the sum is the pair of the coefficient's   *)
(* index j and a vector).                                                  *)
(***************************************************************************)
EXTENDS Integers, Sequences, FiniteSets, TLC

\* ------------------------------------------------------------------ bounds
Dim == 5            \* dimension of the vector space (and of A)
MaxNmax == 5        \* largest N_max tried
MaxNmin == 3        \* largest N_min tried
MaxNcache == 4      \* largest N_cache tried

\* the real number 1.0 in the fixed-point scale (tenths)
One == 10
\* ULP = 5.e-15: no positive number of the grid is at or below it
ULP == 0
\* sentinel component of a vector that was divided by zero (inf / nan)
NaNVal == 0 - 99999

Axes == 1..Dim

\* ------------------------------------------------- npc.Array arithmetic
Abs(x) == IF x < 0 THEN 0 - x ELSE x

Max(a, b) == IF a >= b THEN a ELSE b

Min(a, b) == IF a <= b THEN a ELSE b

RECURSIVE SumTo(_, _)
SumTo(f, n) == IF n = 0 THEN 0 ELSE f[n] + SumTo(f, n - 1)

\* floor of the square root of s, known to lie in lo..hi
ISqrt(s, lo, hi) == CHOOSE r \in lo..hi : r * r <= s /\ (r + 1) * (r + 1) > s

ZeroVec == [i \in Axes |-> 0]

NaNVec == [i \in Axes |-> NaNVal]

IsNaN(v) == \E i \in Axes : v[i] = NaNVal

\* c times the i-th unit vector
Axis(i, c) == [j \in Axes |-> IF j = i THEN c ELSE 0]

\* npc.norm(v)
Norm(v) == IF IsNaN(v) THEN NaNVal
           ELSE LET a == [i \in Axes |-> Abs(v[i])]
                    m == CHOOSE x \in {a[i] : i \in Axes} : \A i \in Axes : a[i] <= x
                IN  ISqrt(SumTo([i \in Axes |-> v[i] * v[i]], Dim), m, SumTo(a, Dim))

\* npc.inner(a, b, do_conj=True) for real vectors
Inner(a, b) == IF IsNaN(a) \/ IsNaN(b) THEN NaNVal
               ELSE SumTo([i \in Axes |-> a[i] * b[i]], Dim) \div One

\* s * v
Scale(s, v) == IF IsNaN(v) \/ s = NaNVal THEN NaNVec ELSE [i \in Axes |-> (s * v[i]) \div One]

\* a - b
Sub(a, b) == IF IsNaN(a) \/ IsNaN(b) THEN NaNVec ELSE [i \in Axes |-> a[i] - b[i]]

\* v / s ; a division by zero leaves inf/nan components
DivVec(v, s) == IF IsNaN(v) \/ s = NaNVal \/ s = 0 THEN NaNVec
                ELSE [i \in Axes |-> (v[i] * One) \div s]

\* A.matvec(w) for a dense symmetric matrix A
MatVec(A, w) == IF IsNaN(w) THEN NaNVec
                ELSE [i \in Axes |-> SumTo([j \in Axes |-> A[i][j] * w[j]], Dim) \div One]

\* for o in orth: w -= o * npc.inner(o, w, do_conj=True)
RECURSIVE ProjectOut(_, _)
ProjectOut(w, orth) ==
    IF orth = <<>> THEN w
    ELSE ProjectOut(Sub(w, Scale(Inner(Head(orth), w), Head(orth))), Tail(orth))

\* orthogonal_to[::-1]
RECURSIVE Reverse(_)
Reverse(s) == IF s = <<>> THEN <<>> ELSE Append(Reverse(Tail(s)), Head(s))

\* ------------------------------------------------------------ gram_schmidt
\* the entry None of the list
None == <<>>

\* lines 37-39: for i in range(j + 1, k): ov[j, i] = inner(vecs[j], vecs[i]); vecs[i] -= ov_ji * vecs[j]
RECURSIVE GSInner(_, _, _, _)
GSInner(vecs, ov, j, i) ==
    IF i > Len(vecs) THEN [vecs |-> vecs, ov |-> ov]
    ELSE LET ov_ji == Inner(vecs[j], vecs[i])
         IN  GSInner([vecs EXCEPT ![i] = Sub(vecs[i], Scale(ov_ji, vecs[j]))],
                     [ov EXCEPT ![j][i] = ov_ji], j, i + 1)

\* line 35: if n > rcond
GSKeeps(n, rcond) == n > rcond

\* lines 33-43: the loop over j (1-based here)
RECURSIVE GSOuter(_, _, _, _)
GSOuter(vecs, ov, j, rcond) ==
    IF j > Len(vecs) THEN [vecs |-> vecs, ov |-> ov]
    ELSE LET n == Norm(vecs[j])
             ov1 == [ov EXCEPT ![j][j] = n]
         IN  IF GSKeeps(n, rcond)
             THEN LET v1 == [vecs EXCEPT ![j] = Scale((One * One) \div n, vecs[j])]
                      r == GSInner(v1, ov1, j, j + 1)
                  IN  GSOuter(r.vecs, r.ov, j + 1, rcond)
             ELSE GSOuter([vecs EXCEPT ![j] = None], ov1, j + 1, rcond)

\* line 44: vecs = [q for q in vecs if q is not None]
RECURSIVE DropNone(_)
DropNone(vecs) ==
    IF vecs = <<>> THEN <<>>
    ELSE IF Head(vecs) = None THEN DropNone(Tail(vecs))
         ELSE <<Head(vecs)>> \o DropNone(Tail(vecs))

\* gram_schmidt(vecs, rcond, verbose): the returned (vecs, ov), or the exception raised.
\* vecs[0].dtype raises IndexError on an empty list (line 32, and line 47 when verbose >= 1).
gram_schmidt(vecs, rcond, verbose) ==
    LET k == Len(vecs) IN
    IF k = 0 THEN [err |-> "IndexError", vecs |-> <<>>, ov |-> <<>>]
    ELSE LET r == GSOuter(vecs, [a \in 1..k |-> [b \in 1..k |-> 0]], 1, rcond)
             kept == DropNone(r.vecs)
         IN  IF verbose >= 1 /\ Len(kept) = 0
             THEN [err |-> "IndexError", vecs |-> kept, ov |-> r.ov]
             ELSE [err |-> "none", vecs |-> kept, ov |-> r.ov]

\* ----------------------------------------------------------------- inputs
\* the symmetric tridiagonal operator whose Krylov space from the first unit vector has dimension r
Jacobi(r) == [i \in Axes |-> [j \in Axes |->
                 IF i = j THEN (i - 2) * One
                 ELSE IF Abs(i - j) = 1 /\ Min(i, j) < r THEN Min(i, j) * One
                 ELSE 0]]

Operators == {Jacobi(r) : r \in 1..Dim}

\* norms of the start vector psi (a multiple of the first unit vector)
PsiNorms == {One, 2 * One}

\* the lists given as orthogonal_to
OrthInputs == { <<>>,
                <<Axis(1, One)>>,
                <<Axis(3, 1)>>,
                <<Axis(Dim, 2 * One), Axis(Dim, One)>>,
                <<Axis(4, One), Axis(Dim, 2 * One)>> }

\* the lists given to a direct call of gram_schmidt
GSInputs == OrthInputs \cup { <<Axis(1, 0)>>, <<Axis(1, 1), Axis(2, 1)>> }

RcondVals == {0, 1, One}

Verbosities == {0, 1}

\* tolerances: 0.1 (only an exact zero is below it) and 3.0 (above the initial estimate 2.)
TolVals == {1, 3 * One}

\* lanczos_params
ParamSets == [N_min : 1..MaxNmin, N_max : 1..MaxNmax, N_cache : 0..MaxNcache,
              E_tol : TolVals, P_tol : TolVals, min_gap : {One}, verbose : Verbosities]

\* what np.linalg.eigh can report at a step: |v_T[k,0]|, E_T[1]-E_T[0], Es[-1][0]-E_T[0]
VkVals == {0, One}

EigGapVals == {0, One}

DeltaVals == {0, 2 * One}

\* ------------------------------------------------------------------ state
VARIABLES
    call,           \* the entry point called: "lanczos" or "gram_schmidt"
    A, psi_in, orth_in, rcond_in, params,      \* the arguments as passed in
    psi,            \* the caller's start vector object (changed in place)
    orthogonal_to,  \* the local orthogonal_to
    pc, err,        \* position in the function, exception raised
    cache, T, k, w, beta, alpha, above_ULP, Delta_E0, P_err, Es,
    N, psi0, len_cache, q0, q1, kr,
    ret,            \* the returned tuple: (E0, psi0, N) of lanczos, (vecs, ov) of gram_schmidt
    n_fwd, n_replay,   \* calls of A.matvec in the first and in the second iteration
    krylov,         \* every vector the first iteration pushed to the cache, in order
    w_full, beta_full, T_full, stop_full,  \* the same iteration run with a cache that never evicts
    log,            \* per step of the first iteration: above_ULP, P_err, Delta_E0 and the test of line 174
    divs            \* the k of every beta = T[k, k+1] the second iteration divided by

inputs == <<call, A, psi_in, orth_in, rcond_in, params>>
fwdvars == <<cache, T, k, w, beta, alpha, above_ULP, Delta_E0, P_err, Es>>
recvars == <<N, psi0, len_cache, q0, q1, kr>>
shadow == <<krylov, w_full, beta_full, T_full, stop_full>>
vars == <<inputs, psi, orthogonal_to, pc, err, fwdvars, recvars, ret, n_fwd, n_replay,
          shadow, log, divs>>

\* a returned vector is a sum of terms [c, v]: the vector v weighted by v_T[c, 0]
\* (by the number 1 when c = UnitCoef), and norm is the norm of the sum
UnitCoef == 0 - 1

NoRet == [E0 |-> [kind |-> "none", val |-> 0], psi0 |-> <<>>, norm |-> 0, N |-> 0]

DefaultParams == [N_min |-> 2, N_max |-> 1, N_cache |-> 2, E_tol |-> 1, P_tol |-> 1,
                  min_gap |-> One, verbose |-> 0]

\* line 136: T = np.zeros([N_max + 1, N_max + 1])
ZeroT(nmax) == [i \in 0..nmax |-> [j \in 0..nmax |-> 0]]

Init ==
    /\ call \in {"lanczos", "gram_schmidt"}
    /\ IF call = "lanczos"
       THEN /\ A \in Operators
            /\ \E c \in PsiNorms : psi_in = Axis(1, c)
            /\ orth_in \in OrthInputs
            /\ rcond_in = 0
            /\ params \in ParamSets
       ELSE /\ A = Jacobi(1)
            /\ psi_in = Axis(1, One)
            /\ orth_in \in GSInputs
            /\ rcond_in \in RcondVals
            /\ \E v \in Verbosities : params = [DefaultParams EXCEPT !.verbose = v]
    /\ psi = psi_in
    /\ orthogonal_to = orth_in
    /\ pc = "start"
    /\ err = "none"
    /\ cache = <<>>
    /\ T = ZeroT(params.N_max)
    /\ k = 0
    /\ w = ZeroVec
    /\ beta = 0
    /\ alpha = 0
    /\ above_ULP = TRUE
    /\ Delta_E0 = 2 * One
    /\ P_err = 2 * One
    /\ Es = <<>>
    /\ N = 0
    /\ psi0 = <<>>
    /\ len_cache = 0
    /\ q0 = None
    /\ q1 = None
    /\ kr = 0
    /\ ret = NoRet
    /\ n_fwd = 0
    /\ n_replay = 0
    /\ krylov = <<>>
    /\ w_full = ZeroVec
    /\ beta_full = 0
    /\ T_full = T
    /\ stop_full = FALSE
    /\ log = <<>>
    /\ divs = {}

\* ------------------------------------------------------------- gram_schmidt call
\* a direct call gram_schmidt(vecs, rcond, verbose)
GramSchmidtCall ==
    /\ call = "gram_schmidt"
    /\ pc = "start"
    /\ \E r \in {gram_schmidt(orth_in, rcond_in, params.verbose)} :
           /\ err' = r.err
           /\ pc' = IF r.err = "none" THEN "done" ELSE "error"
           /\ orthogonal_to' = r.vecs
           /\ ret' = IF r.err = "none" THEN [vecs |-> r.vecs, ov |-> r.ov] ELSE NoRet
    /\ UNCHANGED <<inputs, psi, fwdvars, recvars, n_fwd, n_replay, shadow, log, divs>>

\* ------------------------------------------------------------------ lanczos
\* _to_cache evicting as soon as the cache holds N entries
ToCache_ge(v, c, n) ==
    LET c1 == Append(c, v)
    IN  IF Len(c1) >= n THEN Tail(c1) ELSE c1

\* _to_cache(psi, cache, N): lines 233-237
ToCache(v, c, n) ==
    LET c1 == Append(c, v)
    IN  IF Len(c1) > n THEN Tail(c1) ELSE c1

\* the test of line 122 written as N_cache < 1
NCacheTooSmall_lt1(n) == n < 1

\* line 122: if N_cache < 2
NCacheTooSmall(n) == n < 2

\* line 120: the second positional argument of gram_schmidt is rcond; verbose / 10 in tenths
RcondPassed(verbose) == (verbose * One) \div 10

\* lines 118-142: the setup up to the first iteration
Setup ==
    /\ call = "lanczos"
    /\ pc = "start"
    /\ \E gs \in {IF Len(orth_in) > 0
                  THEN gram_schmidt(orth_in, RcondPassed(params.verbose), 0)
                  ELSE [err |-> "none", vecs |-> orth_in, ov |-> <<>>]} :
           /\ orthogonal_to' = gs.vecs
           /\ IF gs.err # "none"
              THEN /\ pc' = "error"
                   /\ err' = gs.err
                   /\ UNCHANGED <<w, beta, w_full, beta_full>>
              ELSE IF NCacheTooSmall(params.N_cache)
              THEN /\ pc' = "error"
                   /\ err' = "ValueError"
                   /\ UNCHANGED <<w, beta, w_full, beta_full>>
              ELSE /\ pc' = "fwd"
                   /\ err' = "none"
                   /\ w' = psi
                   /\ beta' = Norm(psi)
                   /\ w_full' = psi
                   /\ beta_full' = Norm(psi)
    /\ UNCHANGED <<inputs, psi, cache, T, k, alpha, above_ULP, Delta_E0, P_err, Es,
                   recvars, ret, n_fwd, n_replay, krylov, T_full, stop_full, log, divs>>

\* line 160: above_ULP = abs(beta) > ULP
AboveULP(b) == b # NaNVal /\ Abs(b) > ULP

\* the write of line 162 storing only T[k + 1, k]
WriteOffDiag_lower(t, kk, b) == [t EXCEPT ![kk + 1][kk] = b]

\* lines 161-162: if above_ULP: T[k, k + 1] = T[k + 1, k] = beta
WriteOffDiag(t, kk, b) == [t EXCEPT ![kk][kk + 1] = b, ![kk + 1][kk] = b]

\* the test of line 174 comparing k, not k + 1, with N_min
StopCond_k(above, kk, perr, delta, p) ==
    IF ~above THEN TRUE
    ELSE IF kk >= p.N_min
         THEN (IF perr < p.P_tol THEN TRUE ELSE delta < p.E_tol)
         ELSE FALSE

\* line 174: if not above_ULP or (k + 1 >= N_min and (P_err < P_tol or Delta_E0 < E_tol))
StopCond(above, kk, perr, delta, p) ==
    IF ~above THEN TRUE
    ELSE IF kk + 1 >= p.N_min
         THEN (IF perr < p.P_tol THEN TRUE ELSE delta < p.E_tol)
         ELSE FALSE

\* line 144 written w = w / beta: a new vector, the caller's psi left as it was
InPlaceDiv_rebind(v, s) == v

\* line 144 for k = 0, where w is the caller's psi: w /= beta divides in place
InPlaceDiv(v, s) == DivVec(v, s)

\* lines 144-162 of the loop body: the new basis vector, alpha, the residual w, beta and T,
\* for the working vector wIn, the last beta, the cache and T.  err is the IndexError
\* of cache[-1] or cache[-2] on a cache too short; applied says that A.matvec was called.
LoopVec(wIn, betaIn, cacheIn, Tin, kk, ncache, orth, Aop) ==
    LET w1 == DivVec(wIn, betaIn)
        c1 == ToCache(w1, cacheIn, ncache)
        n1 == Len(c1)
        last == IF n1 >= 1 THEN c1[n1] ELSE ZeroVec
        prev == IF n1 >= 2 THEN c1[n1 - 1] ELSE ZeroVec
        wa == ProjectOut(MatVec(Aop, ProjectOut(last, orth)), Reverse(orth))
        al == Inner(wa, last)
        T1 == [Tin EXCEPT ![kk][kk] = al]
        wr == IF kk > 0 THEN Sub(wa, Scale(betaIn, prev)) ELSE wa
        ws == Sub(wr, Scale(al, last))
        b1 == Norm(ws)
        above == AboveULP(b1)
    IN  [err |-> IF n1 = 0 \/ (kk > 0 /\ n1 < 2) THEN "IndexError" ELSE "none",
         applied |-> n1 >= 1,
         cache |-> c1, w |-> ws, alpha |-> al, beta |-> b1, above |-> above,
         T |-> IF above THEN WriteOffDiag(T1, kk, b1) ELSE T1]

\* lines 165-174 of the loop body: the estimates and the decision to stop, with eigh
\* reporting |v_T[k,0]| = vk, E_T[1]-E_T[0] = e1e0 and Es[-1][0]-E_T[0] = de
LoopEst(Tk, kk, above, al, perrIn, deltaIn, p, vk, e1e0, de) ==
    LET RitzRes == Abs((vk * Tk[kk][kk + 1]) \div One)
        gap == Max(e1e0, p.min_gap)
        rg == (RitzRes * One) \div gap
        perr == IF kk = 0 THEN perrIn ELSE (rg * rg) \div One
        delta == IF kk = 0 THEN deltaIn ELSE de
    IN  [P_err |-> perr, Delta_E0 |-> delta,
         E_T |-> IF kk = 0 THEN [kind |-> "alpha", val |-> al]
                 ELSE [kind |-> "eigh", val |-> kk + 1],
         stop |-> StopCond(above, kk, perr, delta, p)]

\* lines 143-175: one step k of the first Lanczos iteration
ForwardStep ==
    /\ pc = "fwd"
    /\ \E r \in {LoopVec(w, beta, cache, T, k, params.N_cache, orthogonal_to, A)},
          f \in {LoopVec(w_full, beta_full, krylov, T_full, k, params.N_max + 1,
                         orthogonal_to, A)} :
       \E vk \in VkVals, e1e0 \in EigGapVals, de \in DeltaVals :
       \E e \in {LoopEst(r.T, k, r.above, r.alpha, P_err, Delta_E0, params, vk, e1e0, de)},
          ef \in {LoopEst(f.T, k, f.above, f.alpha, P_err, Delta_E0, params, vk, e1e0, de)} :
             /\ psi' = IF k = 0 THEN InPlaceDiv(psi, beta) ELSE psi
             /\ cache' = r.cache
             /\ n_fwd' = IF r.applied THEN n_fwd + 1 ELSE n_fwd
             /\ krylov' = f.cache
             /\ w_full' = f.w
             /\ beta_full' = f.beta
             /\ T_full' = f.T
             /\ stop_full' = ef.stop
             /\ IF r.err # "none"
                THEN /\ pc' = "error"
                     /\ err' = r.err
                     /\ UNCHANGED <<T, k, w, beta, alpha, above_ULP, Delta_E0, P_err, Es, log>>
                ELSE /\ err' = "none"
                     /\ T' = r.T
                     /\ w' = r.w
                     /\ beta' = r.beta
                     /\ alpha' = r.alpha
                     /\ above_ULP' = r.above
                     /\ Delta_E0' = e.Delta_E0
                     /\ P_err' = e.P_err
                     /\ Es' = Append(Es, e.E_T)
                     /\ log' = Append(log, [above |-> r.above, P_err |-> e.P_err,
                                            Delta_E0 |-> e.Delta_E0, stop |-> e.stop])
                     /\ IF e.stop
                        THEN /\ pc' = "post"
                             /\ k' = k
                        ELSE IF k + 1 < params.N_max
                        THEN /\ pc' = "fwd"
                             /\ k' = k + 1
                        ELSE /\ pc' = "post"
                             /\ k' = k
    /\ UNCHANGED <<inputs, orthogonal_to, recvars, ret, n_replay, divs>>

\* line 199: range(1, min(len(cache) + 1, N))
CachedRange(c, n) == 1..(Min(Len(c) + 1, n) - 1)

\* lines 197-200: psi0 = psi * v_T[0, 0]; psi0 += v_T[N - k, 0] * cache[-k]
FromCache(start, c, n) ==
    <<[c |-> 0, v |-> start]>> \o
    [kk \in CachedRange(c, n) |-> [c |-> n - kk, v |-> c[Len(c) + 1 - kk]]]

\* the range of line 206 running one step further
ReplayBound_more(n, lc) == n - lc

\* line 206: range(0, N - len_cache - 1)
ReplayBound(n, lc) == n - lc - 1

\* lines 176-205: after the loop; the return for N = 1, else the sum over the cached vectors
AfterLoop ==
    /\ pc = "post"
    /\ N' = k + 1
    /\ IF k + 1 = 1
       THEN /\ ret' = [E0 |-> Es[Len(Es)], psi0 |-> <<[c |-> UnitCoef, v |-> psi]>>,
                       norm |-> Norm(psi), N |-> k + 1]
            /\ pc' = "done"
            /\ UNCHANGED <<cache, psi0, len_cache, q0, q1>>
       ELSE /\ psi0' = FromCache(psi, cache, k + 1)
            /\ len_cache' = Len(cache)
            /\ cache' = <<>>
            /\ q0' = None
            /\ q1' = psi
            /\ pc' = "replay"
            /\ UNCHANGED ret
    /\ kr' = 0
    /\ UNCHANGED <<inputs, psi, orthogonal_to, err, T, k, w, beta, alpha, above_ULP,
                   Delta_E0, P_err, Es, n_fwd, n_replay, shadow, log, divs>>

\* lines 207-220: the basis vector regenerated from q1, q0 and the coefficients stored in T
Regenerate(qa, qb, betaPrev, al, b, kk, orth, Aop) ==
    LET wa == ProjectOut(MatVec(Aop, ProjectOut(qb, orth)), Reverse(orth))
        wr == IF kk > 0 THEN Sub(wa, Scale(betaPrev, qa)) ELSE wa
    IN  DivVec(Sub(wr, Scale(al, qb)), b)

\* lines 206-221: one step k of the second Lanczos iteration
ReplayStep ==
    /\ pc = "replay"
    /\ kr < ReplayBound(N, len_cache)
    /\ \E v \in {Regenerate(q0, q1, beta, T[kr][kr], T[kr][kr + 1], kr, orthogonal_to, A)} :
           /\ w' = v
           /\ q1' = v
           /\ psi0' = Append(psi0, [c |-> kr + 1, v |-> v])
    /\ alpha' = T[kr][kr]
    /\ beta' = T[kr][kr + 1]
    /\ q0' = q1
    /\ k' = kr
    /\ kr' = kr + 1
    /\ n_replay' = n_replay + 1
    /\ divs' = divs \cup {kr}
    /\ UNCHANGED <<inputs, psi, orthogonal_to, pc, err, cache, T, above_ULP, Delta_E0, P_err,
                   Es, N, len_cache, ret, n_fwd, shadow, log>>

\* lines 222-230: normalize the sum and return
Finish ==
    /\ pc = "replay"
    /\ kr >= ReplayBound(N, len_cache)
    /\ ret' = [E0 |-> Es[Len(Es)], psi0 |-> psi0, norm |-> One, N |-> N]
    /\ pc' = "done"
    /\ UNCHANGED <<inputs, psi, orthogonal_to, err, fwdvars, recvars, n_fwd, n_replay,
                   shadow, log, divs>>

Next == GramSchmidtCall \/ Setup \/ ForwardStep \/ AfterLoop \/ ReplayStep \/ Finish

Spec == Init /\ [][Next]_vars

\* ------------------------------------------------------------------ properties
IsLanczos == call = "lanczos"

AfterForward == pc \in {"post", "replay", "done"}

\* the number of steps of the first iteration done so far
Steps == Len(log)

\* the test of line 174 as the documentation of the loop states it, on the values of step j (0-based)
StopsAt(j) ==
    \/ ~log[j + 1].above
    \/ /\ j + 1 >= params.N_min
       /\ (log[j + 1].P_err < params.P_tol \/ log[j + 1].Delta_E0 < params.E_tol)

\* C1: with a non-empty orthogonal_to, the vector lanczos returns has zero overlap with
\* every vector of the orthonormalized orthogonal_to, whatever the start vector is.
C1_ResultPerpendicular ==
    (IsLanczos /\ pc = "done" /\ Len(orth_in) > 0) =>
        \A i \in 1..Len(orthogonal_to) : \A t \in 1..Len(ret.psi0) :
            Inner(orthogonal_to[i], ret.psi0[t].v) = 0

\* C2: N, T (so the eigenvalue) and every step of the first iteration are those of the same
\* iteration run with a cache that never evicts, and the returned sum holds each basis
\* vector k < N exactly once, weighted by v_T[k, 0].
C2_CacheIndependent ==
    (IsLanczos /\ params.N_cache >= 2) =>
        /\ pc \in {"fwd", "post", "replay", "done"} => T = T_full
        /\ pc = "fwd" => (w = w_full /\ beta = beta_full /\ Len(krylov) = k)
        /\ (pc \in {"fwd", "post"} /\ Steps > 0) =>
               (log[Steps].stop = stop_full /\ Len(krylov) = Steps)
        /\ pc = "done" =>
               /\ ret.N = Len(krylov)
               /\ ret.E0 = IF ret.N = 1 THEN [kind |-> "alpha", val |-> T_full[0][0]]
                           ELSE [kind |-> "eigh", val |-> Len(krylov)]
               /\ ret.N >= 2 =>
                      /\ Len(ret.psi0) = ret.N
                      /\ \A j \in 0..(ret.N - 1) : \E t \in 1..Len(ret.psi0) :
                             ret.psi0[t] = [c |-> j, v |-> krylov[j + 1]]

\* a run with the smallest cache in which the second iteration regenerated two vectors
C2_Witness == IsLanczos /\ pc = "done" /\ params.N_cache = 2 /\ n_replay >= 2

C4_SmallCacheRejected ==
    (IsLanczos /\ params.N_cache < 2) =>
        /\ pc \in {"start", "error"}
        /\ pc = "error" => err = "ValueError"
        /\ n_fwd = 0 /\ n_replay = 0
        /\ Steps = 0 /\ krylov = <<>> /\ cache = <<>>

\* a rejected call with N_cache = 1 and a non-empty orthogonal_to
C4_Witness == IsLanczos /\ pc = "error" /\ params.N_cache = 1 /\ Len(orth_in) > 0

C6_BothCriteria ==
    (IsLanczos /\ pc = "done" /\ ret.N < params.N_max) =>
        /\ log[ret.N].P_err < params.P_tol
        /\ log[ret.N].Delta_E0 < params.E_tol

\* C7: the vectors kept of orthogonal_to do not depend on verbose: they are the ones the
\* call with verbose = 0 keeps.
C7_VerboseIrrelevant ==
    (IsLanczos /\ pc # "start" /\ Len(orth_in) > 0) =>
        orthogonal_to = gram_schmidt(orth_in, RcondPassed(0), 0).vecs

\* C8: gram_schmidt returns normally whenever no vector survives: an empty list and a
\* k x k overlap record for a list of k >= 0 vectors, for every verbose.
C8_NoSurvivorReturns ==
    (call = "gram_schmidt" /\ pc # "start" /\ orthogonal_to = <<>>) =>
        /\ pc = "done"
        /\ err = "none"
        /\ ret.vecs = <<>>
        /\ Len(ret.ov) = Len(orth_in)
        /\ \A i \in 1..Len(ret.ov) : Len(ret.ov[i]) = Len(orth_in)

\* an upper bound of the number of steps a call has left
C9_Variant ==
    IF pc = "start" THEN 2 * params.N_max + 3
    ELSE IF pc = "fwd" THEN 2 * params.N_max + 2 - k
    ELSE IF pc = "post" THEN params.N_max + 1
    ELSE IF pc = "replay" THEN params.N_max - kr
    ELSE 0

\* C9: a call with N_cache >= 2 and N_max >= 1 runs to its return (never to an exception,
\* and every step brings the return nearer), applying A exactly N <= N_max times in the
\* first iteration and max(0, N - N_cache - 1) times in the second.
C9_Counts ==
    (IsLanczos /\ params.N_cache >= 2) =>
        /\ pc # "error"
        /\ C9_Variant >= 0
        /\ pc # "done" => C9_Variant > 0
        /\ n_fwd = Steps /\ n_fwd <= params.N_max
        /\ AfterForward => n_replay <= Max(0, Steps - params.N_cache - 1)
        /\ pc \in {"start", "fwd", "post"} => n_replay = 0
        /\ pc = "replay" => n_replay = kr
        /\ pc = "done" =>
               /\ n_fwd = ret.N
               /\ n_replay = Max(0, ret.N - params.N_cache - 1)
               /\ n_replay <= Max(0, ret.N - params.N_cache)
               /\ n_replay <= params.N_max
               /\ ret.N <= params.N_cache + 1 => n_replay = 0

C9_TerminatesWithCounts ==
    /\ []C9_Counts
    /\ [][C9_Variant' < C9_Variant]_vars

\* a finished run whose second iteration applied A, with a cache larger than the minimum
C9_Witness == IsLanczos /\ pc = "done" /\ params.N_cache = 3 /\ n_replay = 1

\* C10: after the first iteration T[k,k+1] = T[k+1,k] is above ULP for every k < N - 1,
\* only the last step leaves it unwritten (on exhaustion), and the second iteration
\* divides only by entries T[k,k+1] with k <= N - N_cache - 2, none of them zero.
C10_ReplayDividesByWritten ==
    (IsLanczos /\ params.N_cache >= 2) =>
        /\ \A j \in 0..(Steps - 2) : T[j][j + 1] = T[j + 1][j] /\ T[j][j + 1] > ULP
        /\ AfterForward =>
               /\ T[Steps - 1][Steps] = T[Steps][Steps - 1]
               /\ (T[Steps - 1][Steps] > ULP) = log[Steps].above
               /\ ~log[Steps].above => T[Steps - 1][Steps] = 0
        /\ \A d \in divs :
               /\ d <= Steps - params.N_cache - 2
               /\ T[d][d + 1] > ULP

\* a run exhausted at its last step whose second iteration divided by stored entries
C10_Witness == IsLanczos /\ pc = "done" /\ divs # {} /\ ~log[Steps].above
====
